---- MODULE Spec2Model ----
(***************************************************************************)
(* State-machine model of the EGL pbuffer OpenGL filter executor           *)
(* (egl_pbuffer.c: Filter, picture_context_copy, picture_context_destroy)  *)
(* of its Open, LoadFilters and Close, and of the OpenGL filter chain       *)
(* (filters.c: vlc_gl_filters_Append, vlc_gl_filters_UpdatePicture,        *)
(* vlc_gl_filters_Draw, vlc_gl_filters_Destroy, InitFramebufferOut).       *)
(***************************************************************************)
EXTENDS Integers, Sequences, FiniteSets, TLC

\* ------------------------------------------------------------------ bounds
BUFFER_COUNT == 3
MaxStages == 3
MaxFrames == 4
MaxHolds == 2
MaxChainOps == 4
MaxPipelineStages == 2
NumConsumers == 1

\* --------------------------------------------------------------- constants
Slots == 0 .. (BUFFER_COUNT - 1)
Frames == 1 .. MaxFrames
Consumers == 1 .. NumConsumers
NoBuffer == BUFFER_COUNT
NoFb == 0 - 1
NoPicture == [context |-> BUFFER_COUNT, p_pixels |-> 0]
AssertFailed == 0 - 1
NULL == "NULL"
Registry == {"stageA", "stageB"}
ModuleNames == Registry \cup {"unknown"}
InteropSize == [width |-> 2, height |-> 2]
WideSize == [width |-> 4, height |-> 2]
NoDecl == [width |-> 0, height |-> 0]
SizeDecls == {NoDecl, WideSize}
DrawCodes == {"VLC_SUCCESS", "VLC_EGENERIC", "VLC_ENOMEM"}
TexCodes == {"VLC_SUCCESS", "VLC_EGENERIC"}

VARIABLES
    \* filter chain (struct vlc_gl_filters) and the GL state it touches
    list,           \* filters->list: sequence of vlc_gl_filter_priv records
    gl_gen,         \* number of framebuffer/texture names generated so far
    gl_read_fb,     \* GL_READ_FRAMEBUFFER binding
    gl_draw_fb,     \* GL_DRAW_FRAMEBUFFER binding
    chain_op,       \* last chain call and its result
    draw_log,       \* events of the last vlc_gl_filters_Draw call
    chain_ops,      \* number of chain calls made (bounded)
    aborted,        \* "no", or the reason the process aborted
    build,          \* "debug" (assert active), "release" (NDEBUG), or "unknown"
                    \* while no assertion has failed yet
    \* buffer ring (struct vlc_gl_pbo_filter)
    rc,             \* picture_contexts[i].rc
    buffer_mapping, \* picture_contexts[i].buffer_mapping (0 is NULL)
    pbo_mapped,     \* whether GL has pixelbuffers[i] mapped
    ctx_freed,      \* slots whose context was handed to free()
    current_flip,   \* sys->current_flip
    mutex,          \* owner of sys->lock: "free", "filter" or a consumer
    cond_signaled,  \* a signal on sys->cond is pending for the waiting Filter
    gl_current,     \* the rendering context is current on the filter thread
    gl_pack,        \* GL_PIXEL_PACK_BUFFER binding: a slot, or NoBuffer
    \* the running Filter call
    fpc,            \* position of the filtering thread
    index,          \* local index
    input,          \* the input frame of the running call (0: none)
    waited,         \* the running call went through vlc_cond_wait
    readpixels_fb,  \* framebuffer ReadPixels read from in the running call
    pixels,         \* local pixels (0 is NULL)
    frames_in,      \* number of frames submitted so far
    \* the consumers
    emitted,        \* ids of the output frames in the order Filter returned them
    pictures,       \* the live output frames: context (slot) and p_pixels
    dropped,        \* input frames for which Filter returned NULL
    fholds,         \* outstanding holds on each emitted frame
    cpc,            \* what each consumer thread is doing
    cframe,         \* the frame a consumer thread is operating on
    \* the module
    ctx_calls,      \* the MakeCurrent/ReleaseCurrent calls of the running (or
                    \* last) Filter call, in order
    input_releases, \* how often Filter released each input frame
    readpixels_size, \* width and height of the region of the last ReadPixels
    open_op         \* the last Open or Close call, its result and what it
                    \* created and destroyed

chain_vars == <<list, gl_gen, gl_read_fb, gl_draw_fb, chain_op, draw_log, chain_ops>>
ring_vars == <<rc, buffer_mapping, pbo_mapped, ctx_freed, current_flip, mutex,
               cond_signaled, gl_current, gl_pack>>
call_vars == <<fpc, index, input, waited, readpixels_fb, pixels, frames_in>>
consumer_vars == <<emitted, pictures, dropped, fholds, cpc, cframe>>
vars == <<list, gl_gen, gl_read_fb, gl_draw_fb, chain_op, draw_log, chain_ops,
          aborted, build,
          rc, buffer_mapping, pbo_mapped, ctx_freed, current_flip, mutex,
          cond_signaled, gl_current, gl_pack,
          fpc, index, input, waited, readpixels_fb, pixels, frames_in,
          emitted, pictures, dropped, fholds, cpc, cframe, ctx_calls,
          input_releases, open_op, readpixels_size>>

\* assert(): active in a debug build, compiled out under NDEBUG. Which build
\* runs is fixed the first time it makes a difference.
NdebugChoices == IF build = "unknown" THEN BOOLEAN ELSE {build = "release"}

BuildOf(nd) == IF nd THEN "release" ELSE "debug"

\* ------------------------------------------------------------ filter chain

\* vlc_gl_filter_New + the fields vlc_gl_filters_Append fills in
NewPriv(name, sampler, size_out) ==
    [name |-> name, sampler |-> sampler, size_out |-> size_out,
     has_framebuffer_out |-> FALSE, framebuffer_out |-> 0, texture_out |-> 0]

\* vlc_gl_filter_LoadModule: looks the module up by name and runs its Open,
\* which may declare another output size
vlc_gl_filter_LoadModule(name, openOK, decl, size_in) ==
    IF name \in Registry /\ openOK
    THEN [ret |-> "VLC_SUCCESS",
          size_out |-> IF decl = NoDecl THEN size_in ELSE decl]
    ELSE [ret |-> "VLC_EGENERIC", size_out |-> size_in]

\* InitFramebufferOut: generates a texture and a framebuffer, marks the stage
\* as owning them, then checks the framebuffer status
InitFramebufferOut(priv, gen, fbOK) ==
    [priv |-> [priv EXCEPT !.texture_out = gen + 1,
                           !.framebuffer_out = gen + 1,
                           !.has_framebuffer_out = TRUE],
     gen |-> gen + 1,
     bound |-> IF fbOK THEN 0 ELSE gen + 1,
     ret |-> IF fbOK THEN "VLC_SUCCESS" ELSE "VLC_EGENERIC"]

\* an append that takes the input size of every stage from the interop
Append_SizeFromInterop(lst, gen, rfb, dfb, nd, name, newOK, samplerOK, openOK, decl, fbOK) ==
    LET unchanged == [list |-> lst, gen |-> gen, read_fb |-> rfb, draw_fb |-> dfb,
                      ret |-> NULL, abort |-> "no"]
        hasPrev == Len(lst) > 0
        prev_filter == lst[Len(lst)]
        sampler == [kind |-> IF hasPrev THEN "direct" ELSE "interop",
                    size |-> InteropSize]
        load == vlc_gl_filter_LoadModule(name, openOK, decl, InteropSize)
        priv == NewPriv(name, sampler, load.size_out)
        fb == InitFramebufferOut(prev_filter, gen, fbOK)
        withFb == [lst EXCEPT ![Len(lst)] = fb.priv]
    IN  IF ~newOK \/ ~samplerOK \/ load.ret # "VLC_SUCCESS" THEN unchanged
        ELSE IF ~hasPrev
             THEN [unchanged EXCEPT !.list = Append(lst, priv), !.ret = "filter"]
        ELSE IF prev_filter.has_framebuffer_out /\ ~nd
             THEN [unchanged EXCEPT !.abort = "assert_append"]
        ELSE IF fb.ret # "VLC_SUCCESS"
             THEN [list |-> withFb, gen |-> fb.gen, read_fb |-> fb.bound,
                   draw_fb |-> fb.bound, ret |-> NULL, abort |-> "no"]
        ELSE [list |-> Append(withFb, priv), gen |-> fb.gen, read_fb |-> 0,
              draw_fb |-> 0, ret |-> "filter", abort |-> "no"]

\* vlc_gl_filters_Append as a function of the chain and of the outcomes of
\* the calls it makes; yields the new chain, GL state and the result
vlc_gl_filters_Append(lst, gen, rfb, dfb, nd, name, newOK, samplerOK, openOK, decl, fbOK) ==
    LET unchanged == [list |-> lst, gen |-> gen, read_fb |-> rfb, draw_fb |-> dfb,
                      ret |-> NULL, abort |-> "no"]
        hasPrev == Len(lst) > 0
        prev_filter == lst[Len(lst)]
        size_in == IF hasPrev THEN prev_filter.size_out ELSE InteropSize
        sampler == [kind |-> IF hasPrev THEN "direct" ELSE "interop",
                    size |-> size_in]
        load == vlc_gl_filter_LoadModule(name, openOK, decl, size_in)
        priv == NewPriv(name, sampler, load.size_out)
        fb == InitFramebufferOut(prev_filter, gen, fbOK)
        withFb == [lst EXCEPT ![Len(lst)] = fb.priv]
    IN  IF ~newOK THEN unchanged
        ELSE IF ~samplerOK THEN unchanged
        ELSE IF load.ret # "VLC_SUCCESS" THEN unchanged
        ELSE IF ~hasPrev
             THEN [unchanged EXCEPT !.list = Append(lst, priv), !.ret = "filter"]
        ELSE IF prev_filter.has_framebuffer_out /\ ~nd
             THEN [unchanged EXCEPT !.abort = "assert_append"]
        ELSE IF fb.ret # "VLC_SUCCESS"
             THEN [list |-> withFb, gen |-> fb.gen, read_fb |-> fb.bound,
                   draw_fb |-> fb.bound, ret |-> NULL, abort |-> "no"]
        ELSE [list |-> Append(withFb, priv), gen |-> fb.gen, read_fb |-> 0,
              draw_fb |-> 0, ret |-> "filter", abort |-> "no"]

\* vlc_gl_filters_Draw: the loop over the stages from stage i on; st carries
\* the GL bindings, the events so far and the result
RECURSIVE DrawFrom(_, _, _, _, _)
DrawFrom(lst, i, drawres, texres, st) ==
    IF i > Len(lst) THEN [st EXCEPT !.ret = "VLC_SUCCESS"]
    ELSE
    LET priv == lst[i]
        hasPrevious == i > 1
        previous == lst[i - 1]
        read_fb == IF hasPrevious THEN previous.framebuffer_out ELSE 0
        upd == [ev |-> "UpdateTexture", stage |-> i,
                texture |-> previous.texture_out, size |-> previous.size_out,
                read_fb |-> st.read_fb, draw_fb |-> st.draw_fb]
        st1 == IF hasPrevious THEN [st EXCEPT !.log = Append(@, upd)] ELSE st
        draw_fb == IF priv.has_framebuffer_out THEN priv.framebuffer_out ELSE 0
        drw == [ev |-> "draw", stage |-> i, texture |-> 0, size |-> priv.size_out,
                read_fb |-> read_fb, draw_fb |-> draw_fb]
        st2 == [st1 EXCEPT !.read_fb = read_fb, !.draw_fb = draw_fb,
                           !.log = Append(@, drw)]
    IN  IF hasPrevious /\ texres[i] # "VLC_SUCCESS"
        THEN [st1 EXCEPT !.ret = texres[i]]
        ELSE IF drawres[i] # "VLC_SUCCESS"
        THEN [st2 EXCEPT !.ret = drawres[i]]
        ELSE DrawFrom(lst, i + 1, drawres, texres, st2)

\* a draw pass that loses the error code of the failing stage
Draw_SwallowsError(lst, rfb, dfb, drawres, texres) ==
    [DrawFrom(lst, 1, drawres, texres,
              [read_fb |-> rfb, draw_fb |-> dfb, log |-> <<>>, ret |-> "none"])
        EXCEPT !.ret = "VLC_SUCCESS"]

vlc_gl_filters_Draw(lst, rfb, dfb, drawres, texres) ==
    DrawFrom(lst, 1, drawres, texres,
             [read_fb |-> rfb, draw_fb |-> dfb, log |-> <<>>, ret |-> "none"])

\* the outcomes of reading first_filter->sampler through a NULL first_filter
\* when the assertions are compiled out: a fault, or a call on whatever the
\* read produced, which returns some code
NullSamplerOutcomes == {"crash"} \cup TexCodes

\* an update that hands the picture to the sampler of the last stage
UpdatePicture_LastStage(lst, nd, ub, res) ==
    IF Len(lst) = 0
    THEN [ret |-> "none", delivered |-> <<>>, abort |-> "assert_update"]
    ELSE [ret |-> res, delivered |-> <<Len(lst)>>, abort |-> "no"]

\* vlc_gl_filters_UpdatePicture: res is the result of
\* vlc_gl_sampler_UpdatePicture, ub the outcome of the NULL dereference;
\* delivered lists the stages whose sampler received the picture
vlc_gl_filters_UpdatePicture(lst, nd, ub, res) ==
    IF Len(lst) = 0
    THEN IF ~nd
         THEN [ret |-> "none", delivered |-> <<>>, abort |-> "assert_update"]
         ELSE IF ub = "crash"
         THEN [ret |-> "none", delivered |-> <<>>, abort |-> "null_deref"]
         ELSE [ret |-> ub, delivered |-> <<>>, abort |-> "no"]
    ELSE [ret |-> res, delivered |-> <<1>>, abort |-> "no"]

NoChainOp == [op |-> "none", ret |-> "none", before |-> <<>>, results |-> <<>>]

ChainInit ==
    /\ list = <<>>
    /\ gl_gen = 0
    /\ gl_read_fb = 0
    /\ gl_draw_fb = 0
    /\ chain_op = NoChainOp
    /\ draw_log = <<>>
    /\ chain_ops = 0

\* One call of vlc_gl_filters_Append on the chain
ChainAppend ==
    /\ aborted = "no"
    /\ chain_ops < MaxChainOps
    /\ Len(list) < MaxStages
    /\ \E name \in ModuleNames, newOK, samplerOK, openOK, fbOK \in BOOLEAN,
          decl \in SizeDecls, nd \in NdebugChoices :
         LET r == vlc_gl_filters_Append(list, gl_gen, gl_read_fb, gl_draw_fb,
                                        nd, name, newOK, samplerOK, openOK,
                                        decl, fbOK)
         IN  /\ list' = r.list
             /\ gl_gen' = r.gen
             /\ gl_read_fb' = r.read_fb
             /\ gl_draw_fb' = r.draw_fb
             /\ aborted' = r.abort
             /\ build' = IF vlc_gl_filters_Append(list, gl_gen, gl_read_fb,
                                gl_draw_fb, FALSE, name, newOK, samplerOK,
                                openOK, decl, fbOK).abort # "no"
                          THEN BuildOf(nd) ELSE build
             /\ chain_op' = [op |-> "append", ret |-> r.ret, before |-> list,
                             results |-> <<decl>>]
    /\ chain_ops' = chain_ops + 1
    /\ UNCHANGED <<draw_log, ring_vars, call_vars, consumer_vars>>
    /\ UNCHANGED open_op
    /\ UNCHANGED ctx_calls
    /\ UNCHANGED input_releases
    /\ UNCHANGED readpixels_size

\* One call of vlc_gl_filters_Draw on the chain
ChainDraw ==
    /\ aborted = "no"
    /\ chain_ops < MaxChainOps
    /\ \E drawres \in [1 .. Len(list) -> DrawCodes],
          texres \in [1 .. Len(list) -> TexCodes] :
         LET r == vlc_gl_filters_Draw(list, gl_read_fb, gl_draw_fb, drawres, texres)
         IN  /\ gl_read_fb' = r.read_fb
             /\ gl_draw_fb' = r.draw_fb
             /\ draw_log' = r.log
             /\ chain_op' = [op |-> "draw", ret |-> r.ret, before |-> list,
                             results |-> drawres]
    /\ chain_ops' = chain_ops + 1
    /\ UNCHANGED <<list, gl_gen, aborted, build, ring_vars, call_vars, consumer_vars>>
    /\ UNCHANGED open_op
    /\ UNCHANGED ctx_calls
    /\ UNCHANGED input_releases
    /\ UNCHANGED readpixels_size

\* One call of vlc_gl_filters_UpdatePicture on the chain
ChainUpdatePicture ==
    /\ aborted = "no"
    /\ chain_ops < MaxChainOps
    /\ \E nd \in NdebugChoices, ub \in NullSamplerOutcomes, res \in TexCodes :
         LET r == vlc_gl_filters_UpdatePicture(list, nd, ub, res)
         IN  /\ aborted' = r.abort
             /\ build' = IF Len(list) = 0 THEN BuildOf(nd) ELSE build
             /\ chain_op' = [op |-> "update", ret |-> r.ret, before |-> list,
                             results |-> r.delivered]
    /\ chain_ops' = chain_ops + 1
    /\ UNCHANGED <<list, gl_gen, gl_read_fb, gl_draw_fb, draw_log, ring_vars,
                   call_vars, consumer_vars>>
    /\ UNCHANGED open_op
    /\ UNCHANGED ctx_calls
    /\ UNCHANGED input_releases
    /\ UNCHANGED readpixels_size

\* ------------------------------------------------------------- buffer ring

\* Open, lines 503-521: every slot context starts unmapped with rc 0
RingInit ==
    /\ rc = [i \in Slots |-> 0]
    /\ buffer_mapping = [i \in Slots |-> 0]
    /\ pbo_mapped = [i \in Slots |-> FALSE]
    /\ ctx_freed = {}
    /\ current_flip = 0
    /\ mutex = "free"
    /\ cond_signaled = FALSE
    /\ gl_current = FALSE
    /\ gl_pack = NoBuffer

CallInit ==
    /\ fpc = "idle"
    /\ index = BUFFER_COUNT
    /\ input = 0
    /\ waited = FALSE
    /\ readpixels_fb = NoFb
    /\ pixels = 0
    /\ frames_in = 0

ConsumerInit ==
    /\ emitted = <<>>
    /\ pictures = [f \in Frames |-> NoPicture]
    /\ dropped = {}
    /\ fholds = [f \in Frames |-> 0]
    /\ cpc = [c \in Consumers |-> "idle"]
    /\ cframe = [c \in Consumers |-> 0]

\* sys->framebuffers[i]: the names GenFramebuffers hands out in Open, after
\* the render targets of the chain
framebuffers(i) ==
    Cardinality({k \in 1 .. Len(list) : list[k].has_framebuffer_out}) + 1 + i

\* filter->fmt_out.video as Open sets it: the visible size of the input
\* format, the format the interop is made from
fmt_out == [width |-> InteropSize.width, height |-> InteropSize.height]

\* the bytes BufferData allocates for the pixel buffer of each slot
BufferSize == fmt_out.width * fmt_out.height * 4

\* the region ReadPixels reads: width and height of Filter
ReadPixelsRegion == [width |-> fmt_out.width, height |-> fmt_out.height]

\* the length MapBufferRange maps after a readback of that region
MapLength(region) == region.width * region.height * 4

\* the pointer MapBufferRange returns for the pixel buffer of slot i
MapPointer(i) == i + 1

\* The for loop of Filter over the slots from slot i on: the first slot whose
\* rc is 0, BUFFER_COUNT when there is none, AssertFailed when the assertion
\* of a slot visited on the way fails
RECURSIVE ScanFrom(_, _, _)
ScanFrom(r, i, nd) ==
    IF i = BUFFER_COUNT THEN BUFFER_COUNT
    ELSE IF r[i] < 0 /\ ~nd THEN AssertFailed
    ELSE IF r[i] = 0 THEN i
    ELSE ScanFrom(r, i + 1, nd)

\* a scan that takes the first slot whose rc is not negative
Scan_FirstNonNegative(r, nd) ==
    IF \E i \in Slots : r[i] >= 0
    THEN CHOOSE i \in Slots : r[i] >= 0 /\ \A j \in 0 .. i - 1 : r[j] < 0
    ELSE BUFFER_COUNT

\* a scan that falls back on the last slot when no slot is free
Scan_LastWhenFull(r, nd) ==
    IF ScanFrom(r, 0, nd) = BUFFER_COUNT THEN BUFFER_COUNT - 1
    ELSE ScanFrom(r, 0, nd)

\* a scan that starts at the current_flip cursor instead of slot 0
Scan_FromCursor(r, nd) ==
    IF \E k \in Slots : r[(current_flip + k) % BUFFER_COUNT] = 0
    THEN LET k == CHOOSE k \in Slots :
                    /\ r[(current_flip + k) % BUFFER_COUNT] = 0
                    /\ \A j \in 0 .. k - 1 : r[(current_flip + j) % BUFFER_COUNT] # 0
         IN  (current_flip + k) % BUFFER_COUNT
    ELSE BUFFER_COUNT

\* a scan that checks the assertion on every slot before it takes one
Scan_AssertsEverySlot(r, nd) ==
    IF ~nd /\ \E i \in Slots : r[i] < 0 THEN AssertFailed
    ELSE ScanFrom(r, 0, nd)

ScanSlots(r, nd) == ScanFrom(r, 0, nd)

\* output->context of the live output frame f: the slot it points into
FrameSlot(f) == pictures[f].context

IsLive(f) == pictures[f] # NoPicture

\* holds of frame f that no running picture_context_destroy is giving up
FreeHolds(f) ==
    fholds[f] - Cardinality({c \in Consumers : cpc[c] = "destroy" /\ cframe[c] = f})

\* context->rc++ of picture_context_copy
picture_context_copy(r, slot) == [r EXCEPT ![slot] = @ + 1]

\* a release that forgets the decrement
Destroy_NoDecrement(r, slot) == r

\* context->rc-- of picture_context_destroy
picture_context_destroy(r, slot) == [r EXCEPT ![slot] = @ - 1]

\* a release that does not signal the condition
Signal_Lost(pc, signaled) == signaled

\* a return path that hands the new frame downstream ahead of the earlier ones
Return_OutOfOrder(out, in) == <<in>> \o out

\* vlc_cond_signal of picture_context_destroy: wakes the Filter call when it
\* waits on the condition; lost when nobody waits
vlc_cond_signal(pc, signaled) == signaled \/ pc = "waiting"

\* the frames handed downstream once Filter returns the output made from in
ReturnOutput(out, in) == Append(out, in)

\* context->rc ++ of Filter when it emits a frame on the slot
EmitRetain(r, slot) == [r EXCEPT ![slot] = @ + 1]

\* sys->current_flip = (sys->current_flip + 1) % BUFFER_COUNT
AdvanceFlip(flip) == (flip + 1) % BUFFER_COUNT

\* an output frame that takes its context from the current_flip cursor
OutputFrame_AtCursor(slot, px) == [context |-> current_flip, p_pixels |-> px]

\* what Filter puts in the frame it returns
OutputFrame(slot, px) == [context |-> slot, p_pixels |-> px]

\* Filter returns: its locals go away
ReturnLocals ==
    /\ fpc' = "idle"
    /\ index' = BUFFER_COUNT
    /\ input' = 0
    /\ waited' = FALSE
    /\ readpixels_fb' = NoFb
    /\ pixels' = 0
    /\ draw_log' = <<>>

\* Filter returns NULL for the running input frame
ReturnNull ==
    /\ ReturnLocals
    /\ dropped' = dropped \cup {input}

\* an activation whose failure is not looked at
MakeCurrent_IgnoresFailure(ok, calls) ==
    [ok |-> TRUE, current |-> ok,
     calls |-> Append(calls, IF ok THEN "make_ok" ELSE "make_fail")]

\* vlc_gl_MakeCurrent: ok is whether the activation succeeds
vlc_gl_MakeCurrent(ok, calls) ==
    [ok |-> ok, current |-> ok,
     calls |-> Append(calls, IF ok THEN "make_ok" ELSE "make_fail")]

\* a release that is forgotten
ReleaseCurrent_Skipped(cur, calls) == [current |-> cur, calls |-> calls]

\* vlc_gl_ReleaseCurrent
vlc_gl_ReleaseCurrent(cur, calls) ==
    [current |-> FALSE, calls |-> Append(calls, "release")]

\* an input frame that is never released
Release_Never(rel, f) == rel

\* picture_Release(input)
picture_Release(rel, f) == [rel EXCEPT ![f] = @ + 1]

\* ------------------------------------------------------------------ Filter

\* The filtering thread calls Filter with the next input frame
FilterCall ==
    /\ aborted = "no"
    /\ fpc = "idle"
    /\ frames_in < MaxFrames
    /\ frames_in' = frames_in + 1
    /\ input' = frames_in + 1
    /\ fpc' = "lock"
    /\ ctx_calls' = <<>>
    /\ UNCHANGED <<chain_vars, aborted, build, ring_vars, consumer_vars,
                   index, waited, readpixels_fb, pixels>>
    /\ UNCHANGED open_op
    /\ UNCHANGED input_releases
    /\ UNCHANGED readpixels_size

\* vlc_mutex_lock(&sys->lock)
FilterLock ==
    /\ aborted = "no"
    /\ fpc = "lock"
    /\ mutex = "free"
    /\ mutex' = "filter"
    /\ fpc' = "scan"
    /\ UNCHANGED <<chain_vars, aborted, build, consumer_vars, rc, buffer_mapping,
                   pbo_mapped, ctx_freed, current_flip, cond_signaled, gl_current,
                   gl_pack, index, input, waited, readpixels_fb, pixels, frames_in>>
    /\ UNCHANGED open_op
    /\ UNCHANGED ctx_calls
    /\ UNCHANGED input_releases
    /\ UNCHANGED readpixels_size

\* a scan whose wait keeps the lock
Scan_WaitsHoldingLock ==
    /\ aborted = "no"
    /\ fpc = "scan"
    /\ \E nd \in NdebugChoices :
       LET found == ScanSlots(rc, nd)
       IN  /\ build' = IF ScanSlots(rc, FALSE) = AssertFailed
                       THEN BuildOf(nd) ELSE build
           /\ \/ /\ found = AssertFailed
                 /\ aborted' = "assert_rc"
                 /\ UNCHANGED <<mutex, index, current_flip, fpc, cond_signaled,
                                waited>>
              \/ /\ found \in Slots
                 /\ mutex' = "free"
                 /\ index' = found
                 /\ current_flip' = found
                 /\ fpc' = "make_current"
                 /\ UNCHANGED <<aborted, cond_signaled, waited>>
              \/ /\ found = BUFFER_COUNT
                 /\ mutex' = mutex
                 /\ index' = found
                 /\ fpc' = "waiting"
                 /\ cond_signaled' = FALSE
                 /\ waited' = TRUE
                 /\ UNCHANGED <<aborted, current_flip>>
    /\ UNCHANGED <<chain_vars, consumer_vars, rc, buffer_mapping, pbo_mapped,
                   ctx_freed, gl_current, gl_pack, input, readpixels_fb, pixels,
                   frames_in>>
    /\ UNCHANGED open_op
    /\ UNCHANGED ctx_calls
    /\ UNCHANGED input_releases
    /\ UNCHANGED readpixels_size

\* One pass of the do-while body under the lock: the scan, then either
\* out_loop (unlock, context and current_flip set) or vlc_cond_wait
FilterScan ==
    /\ aborted = "no"
    /\ fpc = "scan"
    /\ \E nd \in NdebugChoices :
       LET found == ScanSlots(rc, nd)
       IN  /\ build' = IF ScanSlots(rc, FALSE) = AssertFailed
                       THEN BuildOf(nd) ELSE build
           /\ \/ /\ found = AssertFailed
                 /\ aborted' = "assert_rc"
                 /\ UNCHANGED <<mutex, index, current_flip, fpc, cond_signaled,
                                waited>>
              \/ /\ found \in Slots
                 /\ mutex' = "free"
                 /\ index' = found
                 /\ current_flip' = found
                 /\ fpc' = "make_current"
                 /\ UNCHANGED <<aborted, cond_signaled, waited>>
              \/ /\ found = BUFFER_COUNT
                 /\ mutex' = "free"
                 /\ index' = found
                 /\ fpc' = "waiting"
                 /\ cond_signaled' = FALSE
                 /\ waited' = TRUE
                 /\ UNCHANGED <<aborted, current_flip>>
    /\ UNCHANGED <<chain_vars, consumer_vars, rc, buffer_mapping, pbo_mapped,
                   ctx_freed, gl_current, gl_pack, input, readpixels_fb, pixels,
                   frames_in>>
    /\ UNCHANGED open_op
    /\ UNCHANGED ctx_calls
    /\ UNCHANGED input_releases
    /\ UNCHANGED readpixels_size

\* vlc_cond_wait returns after a signal, with the lock taken again
FilterWakeSignaled ==
    /\ aborted = "no"
    /\ fpc = "waiting"
    /\ cond_signaled
    /\ mutex = "free"
    /\ mutex' = "filter"
    /\ cond_signaled' = FALSE
    /\ fpc' = "scan"
    /\ UNCHANGED <<chain_vars, aborted, build, consumer_vars, rc, buffer_mapping,
                   pbo_mapped, ctx_freed, current_flip, gl_current, gl_pack,
                   index, input, waited, readpixels_fb, pixels, frames_in>>
    /\ UNCHANGED open_op
    /\ UNCHANGED ctx_calls
    /\ UNCHANGED input_releases
    /\ UNCHANGED readpixels_size

\* a wait that gives up after a while and goes on with the first slot
Wake_TimesOut ==
    /\ aborted = "no"
    /\ fpc = "waiting"
    /\ mutex = "free"
    /\ index' = 0
    /\ current_flip' = 0
    /\ fpc' = "make_current"
    /\ UNCHANGED <<chain_vars, aborted, build, consumer_vars, rc, buffer_mapping,
                   pbo_mapped, ctx_freed, mutex, cond_signaled, gl_current,
                   gl_pack, input, waited, readpixels_fb, pixels, frames_in,
                   ctx_calls, input_releases, open_op>>
    /\ UNCHANGED readpixels_size

\* vlc_cond_wait returns without any signal (spurious wake-up)
FilterWakeSpurious ==
    /\ aborted = "no"
    /\ fpc = "waiting"
    /\ ~cond_signaled
    /\ mutex = "free"
    /\ mutex' = "filter"
    /\ fpc' = "scan"
    /\ UNCHANGED <<chain_vars, aborted, build, consumer_vars, rc, buffer_mapping,
                   pbo_mapped, ctx_freed, current_flip, cond_signaled, gl_current,
                   gl_pack, index, input, waited, readpixels_fb, pixels, frames_in>>
    /\ UNCHANGED open_op
    /\ UNCHANGED ctx_calls
    /\ UNCHANGED input_releases
    /\ UNCHANGED readpixels_size

\* vlc_gl_MakeCurrent, lines 302-303
FilterMakeCurrent ==
    /\ aborted = "no"
    /\ fpc = "make_current"
    /\ \E ok \in BOOLEAN :
         LET r == vlc_gl_MakeCurrent(ok, ctx_calls)
         IN  /\ gl_current' = r.current
             /\ ctx_calls' = r.calls
             /\ IF r.ok
                THEN /\ fpc' = "update"
                     /\ UNCHANGED <<index, input, waited, readpixels_fb, pixels,
                                    draw_log, dropped>>
                ELSE ReturnNull
    /\ UNCHANGED <<list, gl_gen, gl_read_fb, gl_draw_fb, chain_op, chain_ops,
                   aborted, build, rc, buffer_mapping, pbo_mapped, ctx_freed,
                   current_flip, mutex, cond_signaled, gl_pack, frames_in,
                   emitted, pictures, fholds, cpc, cframe>>
    /\ UNCHANGED open_op
    /\ UNCHANGED input_releases
    /\ UNCHANGED readpixels_size

\* vlc_gl_filters_UpdatePicture, lines 305-310
FilterUpdatePicture ==
    /\ aborted = "no"
    /\ fpc = "update"
    /\ \E nd \in NdebugChoices, ub \in NullSamplerOutcomes, res \in TexCodes :
         LET r == vlc_gl_filters_UpdatePicture(list, nd, ub, res)
         IN  /\ aborted' = r.abort
             /\ build' = IF Len(list) = 0 THEN BuildOf(nd) ELSE build
             /\ IF r.abort # "no"
                THEN UNCHANGED <<gl_current, ctx_calls, fpc, index, input, waited,
                                 readpixels_fb, pixels, draw_log, dropped>>
                ELSE IF r.ret = "VLC_SUCCESS"
                THEN /\ fpc' = "bind"
                     /\ UNCHANGED <<gl_current, ctx_calls, index, input, waited,
                                    readpixels_fb, pixels, draw_log, dropped>>
                ELSE /\ gl_current' = vlc_gl_ReleaseCurrent(gl_current, ctx_calls).current
                     /\ ctx_calls' = vlc_gl_ReleaseCurrent(gl_current, ctx_calls).calls
                     /\ ReturnNull
    /\ UNCHANGED <<list, gl_gen, gl_read_fb, gl_draw_fb, chain_op, chain_ops,
                   rc, buffer_mapping, pbo_mapped, ctx_freed,
                   current_flip, mutex, cond_signaled, gl_pack, frames_in,
                   emitted, pictures, fholds, cpc, cframe>>
    /\ UNCHANGED open_op
    /\ UNCHANGED input_releases
    /\ UNCHANGED readpixels_size

\* lines 312-315: bind the pixel buffer and the framebuffer of current_flip,
\* unmap the bound buffer when the selected context records a mapping
FilterBind ==
    /\ aborted = "no"
    /\ fpc = "bind"
    /\ gl_pack' = current_flip
    /\ gl_read_fb' = framebuffers(current_flip)
    /\ gl_draw_fb' = framebuffers(current_flip)
    /\ pbo_mapped' = IF buffer_mapping[index] # 0
                     THEN [pbo_mapped EXCEPT ![current_flip] = FALSE]
                     ELSE pbo_mapped
    /\ fpc' = "draw"
    /\ UNCHANGED <<list, gl_gen, chain_op, draw_log, chain_ops, aborted, build,
                   rc, buffer_mapping, ctx_freed, current_flip, mutex,
                   cond_signaled, gl_current, index, input, waited,
                   readpixels_fb, pixels, frames_in, consumer_vars>>
    /\ UNCHANGED open_op
    /\ UNCHANGED ctx_calls
    /\ UNCHANGED input_releases
    /\ UNCHANGED readpixels_size

\* vlc_gl_filters_Draw, lines 317-322
FilterDraw ==
    /\ aborted = "no"
    /\ fpc = "draw"
    /\ \E drawres \in [1 .. Len(list) -> DrawCodes],
          texres \in [1 .. Len(list) -> TexCodes] :
         LET r == vlc_gl_filters_Draw(list, gl_read_fb, gl_draw_fb, drawres, texres)
         IN  /\ gl_read_fb' = r.read_fb
             /\ gl_draw_fb' = r.draw_fb
             /\ IF r.ret = "VLC_SUCCESS"
                THEN /\ fpc' = "readback"
                     /\ draw_log' = r.log
                     /\ UNCHANGED <<gl_current, ctx_calls, index, input, waited,
                                    readpixels_fb, pixels, dropped>>
                ELSE /\ gl_current' = vlc_gl_ReleaseCurrent(gl_current, ctx_calls).current
                     /\ ctx_calls' = vlc_gl_ReleaseCurrent(gl_current, ctx_calls).calls
                     /\ ReturnNull
    /\ UNCHANGED <<list, gl_gen, chain_op, chain_ops, aborted, build, rc,
                   buffer_mapping, pbo_mapped, ctx_freed, current_flip, mutex,
                   cond_signaled, gl_pack, frames_in, emitted, pictures, fholds, cpc, cframe>>
    /\ UNCHANGED open_op
    /\ UNCHANGED input_releases
    /\ UNCHANGED readpixels_size

\* lines 324-342: ReadPixels from the read framebuffer into the bound pixel
\* buffer, MapBufferRange (NULL when the buffer is still mapped), unbind,
\* release the context, advance current_flip
FilterReadback ==
    /\ aborted = "no"
    /\ fpc = "readback"
    /\ readpixels_fb' = gl_read_fb
    /\ readpixels_size' = ReadPixelsRegion
    /\ pixels' = IF pbo_mapped[gl_pack] THEN 0 ELSE MapPointer(gl_pack)
    /\ pbo_mapped' = [pbo_mapped EXCEPT ![gl_pack] = TRUE]
    /\ gl_read_fb' = 0
    /\ gl_draw_fb' = 0
    /\ gl_pack' = NoBuffer
    /\ gl_current' = vlc_gl_ReleaseCurrent(gl_current, ctx_calls).current
    /\ ctx_calls' = vlc_gl_ReleaseCurrent(gl_current, ctx_calls).calls
    /\ current_flip' = AdvanceFlip(current_flip)
    /\ fpc' = "new_picture"
    /\ UNCHANGED <<list, gl_gen, chain_op, draw_log, chain_ops, aborted, build,
                   rc, buffer_mapping, ctx_freed, mutex, cond_signaled, index,
                   input, waited, frames_in, consumer_vars>>
    /\ UNCHANGED open_op
    /\ UNCHANGED input_releases

\* lines 353-376 when picture_NewFromResource succeeds: record the mapping,
\* take the first reference, attach the context, return the output frame
FilterEmit ==
    /\ aborted = "no"
    /\ fpc = "new_picture"
    /\ buffer_mapping' = [buffer_mapping EXCEPT ![index] = pixels]
    /\ rc' = EmitRetain(rc, index)
    /\ emitted' = ReturnOutput(emitted, input)
    /\ pictures' = [pictures EXCEPT ![input] = OutputFrame(index, pixels)]
    /\ fholds' = [fholds EXCEPT ![input] = 1]
    /\ input_releases' = picture_Release(input_releases, input)
    /\ ReturnLocals
    /\ UNCHANGED <<list, gl_gen, gl_read_fb, gl_draw_fb, chain_op, chain_ops,
                   aborted, build, pbo_mapped, ctx_freed, current_flip, mutex,
                   cond_signaled, gl_current, gl_pack, frames_in, dropped, cpc,
                   cframe>>
    /\ UNCHANGED open_op
    /\ UNCHANGED ctx_calls
    /\ UNCHANGED readpixels_size

\* lines 354-358 when picture_NewFromResource fails: free(context) on a
\* pointer into the middle of the sys allocation is undefined; the allocator
\* either aborts the process or takes the storage, after which the rc and
\* buffer_mapping stored there hold any value
FilterAllocFail ==
    /\ aborted = "no"
    /\ fpc = "new_picture"
    /\ \/ /\ aborted' = "free"
          /\ UNCHANGED <<rc, buffer_mapping, ctx_freed, fpc, index, input, waited,
                         readpixels_fb, pixels, draw_log, dropped>>
       \/ /\ \E v \in {0 - 1, 0, 1}, m \in {0, MapPointer(index)} :
                /\ rc' = [rc EXCEPT ![index] = v]
                /\ buffer_mapping' = [buffer_mapping EXCEPT ![index] = m]
          /\ ctx_freed' = ctx_freed \cup {index}
          /\ ReturnNull
          /\ UNCHANGED aborted
    /\ UNCHANGED <<build, list, gl_gen, gl_read_fb, gl_draw_fb, chain_op, chain_ops,
                   pbo_mapped, current_flip, mutex, cond_signaled,
                   gl_current, gl_pack, frames_in, emitted, pictures, fholds, cpc, cframe>>
    /\ UNCHANGED open_op
    /\ UNCHANGED ctx_calls
    /\ UNCHANGED input_releases
    /\ UNCHANGED readpixels_size

\* --------------------------------------------------------------- consumers

\* picture_context_copy, line 262: a consumer holding frame f takes the lock
ConsumerCopyLock(c, f) ==
    /\ aborted = "no"
    /\ cpc[c] = "idle"
    /\ IsLive(f)
    /\ FreeHolds(f) > 0
    /\ fholds[f] < MaxHolds
    /\ mutex = "free"
    /\ mutex' = "consumer"
    /\ cpc' = [cpc EXCEPT ![c] = "copy"]
    /\ cframe' = [cframe EXCEPT ![c] = f]
    /\ UNCHANGED <<chain_vars, aborted, build, call_vars, rc, buffer_mapping,
                   pbo_mapped, ctx_freed, current_flip, cond_signaled, gl_current,
                   gl_pack, emitted, pictures, dropped, fholds>>
    /\ UNCHANGED open_op
    /\ UNCHANGED ctx_calls
    /\ UNCHANGED input_releases
    /\ UNCHANGED readpixels_size

\* picture_context_copy, lines 263-265
ConsumerCopy(c) ==
    /\ aborted = "no"
    /\ cpc[c] = "copy"
    /\ rc' = picture_context_copy(rc, FrameSlot(cframe[c]))
    /\ fholds' = [fholds EXCEPT ![cframe[c]] = @ + 1]
    /\ mutex' = "free"
    /\ cpc' = [cpc EXCEPT ![c] = "idle"]
    /\ cframe' = [cframe EXCEPT ![c] = 0]
    /\ UNCHANGED <<chain_vars, aborted, build, call_vars, buffer_mapping,
                   pbo_mapped, ctx_freed, current_flip, cond_signaled, gl_current,
                   gl_pack, emitted, pictures, dropped>>
    /\ UNCHANGED open_op
    /\ UNCHANGED ctx_calls
    /\ UNCHANGED input_releases
    /\ UNCHANGED readpixels_size

\* picture_context_destroy, line 273: a consumer gives up one hold of frame f
ConsumerDestroyLock(c, f) ==
    /\ aborted = "no"
    /\ cpc[c] = "idle"
    /\ IsLive(f)
    /\ FreeHolds(f) > 0
    /\ mutex = "free"
    /\ mutex' = "consumer"
    /\ cpc' = [cpc EXCEPT ![c] = "destroy"]
    /\ cframe' = [cframe EXCEPT ![c] = f]
    /\ UNCHANGED <<chain_vars, aborted, build, call_vars, rc, buffer_mapping,
                   pbo_mapped, ctx_freed, current_flip, cond_signaled, gl_current,
                   gl_pack, emitted, pictures, dropped, fholds>>
    /\ UNCHANGED open_op
    /\ UNCHANGED ctx_calls
    /\ UNCHANGED input_releases
    /\ UNCHANGED readpixels_size

\* picture_context_destroy, lines 274-276
ConsumerDestroy(c) ==
    /\ aborted = "no"
    /\ cpc[c] = "destroy"
    /\ rc' = picture_context_destroy(rc, FrameSlot(cframe[c]))
    /\ fholds' = [fholds EXCEPT ![cframe[c]] = @ - 1]
    /\ pictures' = IF fholds[cframe[c]] = 1
                   THEN [pictures EXCEPT ![cframe[c]] = NoPicture]
                   ELSE pictures
    /\ cond_signaled' = vlc_cond_signal(fpc, cond_signaled)
    /\ mutex' = "free"
    /\ cpc' = [cpc EXCEPT ![c] = "idle"]
    /\ cframe' = [cframe EXCEPT ![c] = 0]
    /\ UNCHANGED <<chain_vars, aborted, build, call_vars, buffer_mapping,
                   pbo_mapped, ctx_freed, current_flip, gl_current, gl_pack,
                   emitted, dropped>>
    /\ UNCHANGED open_op
    /\ UNCHANGED ctx_calls
    /\ UNCHANGED input_releases
    /\ UNCHANGED readpixels_size

\* ------------------------------------------------------------ Open, Close

MaxConfigLen == 4

\* the configuration string as a sequence of tokens: filter names, inline
\* parameters and the separator between two filters
ParamTokens == {":param=1"}
Separator == ","
ConfigTokens == ModuleNames \cup ParamTokens \cup {Separator}
ConfigStrings == UNION {[1 .. n -> ConfigTokens] : n \in 0 .. MaxConfigLen}

\* a char pointer: NULL, or a string
NullString == [null |-> TRUE, s |-> <<>>]
StringOf(s) == [null |-> FALSE, s |-> s]

\* what Open and Close create and destroy
Created(kind, id) == [ev |-> "create", kind |-> kind, id |-> id]
Destroyed(kind, id) == [ev |-> "destroy", kind |-> kind, id |-> id]

RECURSIVE LeadingParams(_)
LeadingParams(s) ==
    IF Len(s) > 0 /\ s[1] \in ParamTokens THEN 1 + LeadingParams(Tail(s)) ELSE 0

\* config_ChainCreate: splits the first filter off the string: its name, its
\* inline parameters, and the rest of the string after the separator (NULL
\* when the string ends there)
config_ChainCreate(string) ==
    IF Len(string) = 0
    THEN [name |-> NULL, config |-> <<>>, leftover |-> NullString]
    ELSE IF string[1] \notin ModuleNames
    THEN [name |-> NULL, config |-> <<>>, leftover |-> StringOf(Tail(string))]
    ELSE LET np == LeadingParams(Tail(string))
             rest == SubSeq(string, np + 2, Len(string))
         IN  [name |-> string[1],
              config |-> SubSeq(string, 2, np + 1),
              leftover |-> IF Len(rest) = 0 THEN NullString
                           ELSE IF rest[1] = Separator THEN StringOf(Tail(rest))
                           ELSE StringOf(rest)]

\* how one vlc_gl_filters_Append call of LoadFilters goes: the step that
\* fails, if any, and the size the filter declares
AppendOutcomes == [fail : {"none", "new", "sampler", "open", "fb"}, decl : SizeDecls]

\* vlc_gl_filter_Delete of the stage at position k: its render target when it
\* owns one, then the stage itself
vlc_gl_filter_Delete(priv, k) ==
    (IF priv.has_framebuffer_out THEN <<Destroyed("target", k)>> ELSE <<>>)
        \o <<Destroyed("stage", k)>>

\* what one vlc_gl_filters_Append call creates and destroys
AppendEvents(lst, name, oc) ==
    LET k == Len(lst) + 1
        loaded == name \in Registry /\ oc.fail # "open"
    IN  IF oc.fail = "new" THEN <<>>
        ELSE IF oc.fail = "sampler" \/ ~loaded
        THEN <<Created("stage", k), Destroyed("stage", k)>>
        ELSE IF Len(lst) = 0 THEN <<Created("stage", k)>>
        ELSE IF oc.fail = "fb"
        THEN <<Created("stage", k), Created("target", k - 1), Destroyed("stage", k)>>
        ELSE <<Created("stage", k), Created("target", k - 1)>>

\* vlc_list_foreach steps to the stage at position k: it reads the links of
\* that stage before the body of the loop runs on it
vlc_list_foreach(k) == <<[ev |-> "read", kind |-> "stage", id |-> k]>>

\* a teardown that leaves the loop after the first stage
Destroy_FirstOnly(lst, k) ==
    IF k > Len(lst) THEN <<>>
    ELSE vlc_list_foreach(k) \o vlc_gl_filter_Delete(lst[k], k)

\* vlc_gl_filters_Destroy: deletes the stages from position k on, in list order
RECURSIVE DestroyFrom(_, _)
DestroyFrom(lst, k) ==
    IF k > Len(lst) THEN <<>>
    ELSE vlc_list_foreach(k) \o vlc_gl_filter_Delete(lst[k], k)
             \o DestroyFrom(lst, k + 1)

vlc_gl_filters_Destroy(lst) == DestroyFrom(lst, 1)

\* the locals of LoadFilters on entry, with the chain after
\* vlc_gl_filters_Init: string is the rest of the configuration to parse,
\* next_module the iteration whose leftover next_module holds (0: NULL)
LoadStart(config) ==
    [list |-> <<>>, gen |-> 0, read_fb |-> 0, draw_fb |-> 0, abort |-> "no",
     appends |-> <<>>, events |-> <<>>, ret |-> "none", n |-> 0,
     next_module |-> 0, string |-> config]

\* a loader that goes on with the next name when an append failed
LoadFilters_SkipsFailed(st, oc) ==
    LET p == config_ChainCreate(st.string.s)
        r == vlc_gl_filters_Append(st.list, st.gen, st.read_fb, st.draw_fb,
                                   FALSE, p.name, oc.fail # "new",
                                   oc.fail # "sampler", oc.fail # "open",
                                   oc.decl, oc.fail # "fb")
    IN  [st EXCEPT !.n = @ + 1, !.string = p.leftover,
                   !.list = IF p.name = NULL THEN @ ELSE r.list,
                   !.gen = IF p.name = NULL THEN @ ELSE r.gen,
                   !.appends = IF p.name = NULL THEN @
                               ELSE Append(@, [name |-> p.name,
                                               config |-> p.config,
                                               ret |-> r.ret]),
                   !.ret = IF p.leftover.null THEN "VLC_SUCCESS" ELSE "none"]

\* One iteration of the do-while loop of LoadFilters; oc is the outcome of
\* its vlc_gl_filters_Append call. ret stays "none" while the loop goes on
LoadFilters(st, oc) ==
    LET n == st.n + 1
        p == config_ChainCreate(st.string.s)
        parsed == (IF p.name # NULL THEN <<Created("name", n)>> ELSE <<>>)
                  \o (IF Len(p.config) > 0 THEN <<Created("config", n)>> ELSE <<>>)
                  \o (IF ~p.leftover.null THEN <<Created("leftover", n)>> ELSE <<>>)
        freed == IF st.next_module # 0
                 THEN <<Destroyed("leftover", st.next_module)>> ELSE <<>>
        r == vlc_gl_filters_Append(st.list, st.gen, st.read_fb, st.draw_fb,
                                   FALSE, p.name, oc.fail # "new",
                                   oc.fail # "sampler", oc.fail # "open",
                                   oc.decl, oc.fail # "fb")
        appended == AppendEvents(st.list, p.name, oc)
                    \o (IF Len(p.config) > 0
                        THEN <<Destroyed("config", n)>> ELSE <<>>)
                    \o <<Destroyed("name", n)>>
    IN  IF p.name = NULL
        THEN [st EXCEPT !.n = n, !.string = p.leftover,
                        !.events = @ \o parsed \o freed,
                        !.next_module = IF p.leftover.null THEN 0 ELSE n,
                        !.ret = IF p.leftover.null THEN "VLC_SUCCESS" ELSE "none"]
        ELSE [st EXCEPT !.n = n, !.string = p.leftover,
                        !.events = @ \o parsed \o freed \o appended,
                        !.next_module = IF p.leftover.null THEN 0 ELSE n,
                        !.list = r.list, !.gen = r.gen, !.read_fb = r.read_fb,
                        !.draw_fb = r.draw_fb, !.abort = r.abort,
                        !.appends = Append(@, [name |-> p.name,
                                               config |-> p.config,
                                               ret |-> r.ret]),
                        !.ret = IF r.abort # "no" THEN "none"
                                ELSE IF r.ret = NULL THEN "VLC_EGENERIC"
                                ELSE IF p.leftover.null THEN "VLC_SUCCESS"
                                ELSE "none"]

\* vlc_gl_filters_InitFramebuffers as Open calls it
vlc_gl_filters_InitFramebuffers(lst, ok) ==
    IF ok THEN "VLC_SUCCESS" ELSE "VLC_EGENERIC"

\* the setup steps of Open that can fail before the filters are loaded
OpenFailures == {"none", "malloc", "gl", "current", "api", "interop"}

\* the labels of Open: what each one releases, down to free(sys)
error1 == <<Destroyed("sys", 0)>>
error2 == <<Destroyed("gl", 0)>> \o error1
error3 == <<Destroyed("current", 0)>> \o error2
error4 == <<Destroyed("interop", 0)>> \o error3
error5(lst) == vlc_gl_filters_Destroy(lst) \o error4

\* Open up to var_InheritString: failAt is the setup step that fails, cfg the
\* value of egl-pbuffer-filters (NULL when unset); ret stays "none" when Open
\* goes on to LoadFilters
OpenSetup(failAt, cfg) ==
    LET made == <<Created("sys", 0), Created("gl", 0), Created("current", 0)>>
    IN  IF failAt = "malloc" THEN [ret |-> "VLC_ENOMEM", events |-> <<>>]
        ELSE IF failAt = "gl"
        THEN [ret |-> "VLC_EGENERIC", events |-> <<Created("sys", 0)>> \o error1]
        ELSE IF failAt = "current"
        THEN [ret |-> "VLC_EGENERIC",
              events |-> <<Created("sys", 0), Created("gl", 0)>> \o error2]
        ELSE IF failAt \in {"api", "interop"}
        THEN [ret |-> "VLC_EGENERIC", events |-> made \o error3]
        ELSE IF cfg.null
        THEN [ret |-> "VLC_EGENERIC",
              events |-> made \o <<Created("interop", 0)>> \o error4]
        ELSE [ret |-> "none",
              events |-> made \o <<Created("interop", 0),
                                   Created("glfilters_config", 0)>>]

\* Open from the return of LoadFilters on: lf is what LoadFilters left,
\* fbOK whether vlc_gl_filters_InitFramebuffers succeeds
OpenFinish(lf, fbOK) ==
    LET loaded == lf.events \o <<Destroyed("glfilters_config", 0)>>
    IN  IF lf.ret # "VLC_SUCCESS"
           \/ vlc_gl_filters_InitFramebuffers(lf.list, fbOK) # "VLC_SUCCESS"
        THEN [ret |-> "VLC_EGENERIC", installed |-> FALSE,
              events |-> loaded \o error5(lf.list), list |-> <<>>, gen |-> lf.gen]
        ELSE [ret |-> "VLC_SUCCESS", installed |-> TRUE,
              events |-> loaded \o <<Created("ring", 0), Destroyed("current", 0)>>,
              list |-> lf.list, gen |-> lf.gen + BUFFER_COUNT]

\* Close: what it creates and destroys on the chain lst
Close(lst) ==
    <<Created("current", 0)>> \o vlc_gl_filters_Destroy(lst)
        \o <<Destroyed("interop", 0), Destroyed("ring", 0),
             Destroyed("current", 0), Destroyed("gl", 0), Destroyed("sys", 0)>>

\* open_op.op: "none" before Open, "loading" inside LoadFilters, "loaded"
\* when LoadFilters has returned, "open" when Open has returned, "close"
\* after Close
NoOpenOp ==
    [op |-> "none", ret |-> "none", installed |-> FALSE, config |-> NullString,
     events |-> <<>>, load |-> LoadStart(NullString)]

\* The core calls Open: the steps up to LoadFilters
OpenCall ==
    /\ aborted = "no"
    /\ open_op.op = "none"
    /\ \E failAt \in OpenFailures,
          cfg \in {NullString} \cup {StringOf(s) : s \in ConfigStrings} :
         LET r == OpenSetup(failAt, cfg)
         IN  open_op' = [op |-> IF r.ret = "none" THEN "loading" ELSE "open",
                         ret |-> r.ret, installed |-> FALSE, config |-> cfg,
                         events |-> r.events,
                         load |-> [LoadStart(cfg) EXCEPT !.events = r.events]]
    /\ UNCHANGED <<chain_vars, aborted, build, ring_vars, call_vars, consumer_vars>>
    /\ UNCHANGED ctx_calls
    /\ UNCHANGED input_releases
    /\ UNCHANGED readpixels_size

\* One iteration of the loop of LoadFilters
OpenLoadFilters ==
    /\ aborted = "no"
    /\ open_op.op = "loading"
    /\ \E oc \in AppendOutcomes :
         LET st == LoadFilters(open_op.load, oc)
         IN  /\ open_op' = [open_op EXCEPT
                              !.op = IF st.ret = "none" THEN "loading" ELSE "loaded",
                              !.events = st.events,
                              !.load = st]
             /\ list' = st.list
             /\ gl_gen' = st.gen
             /\ gl_read_fb' = st.read_fb
             /\ gl_draw_fb' = st.draw_fb
             /\ aborted' = st.abort
    /\ UNCHANGED <<chain_op, draw_log, chain_ops, build, ring_vars, call_vars,
                   consumer_vars>>
    /\ UNCHANGED ctx_calls
    /\ UNCHANGED input_releases
    /\ UNCHANGED readpixels_size

\* Open from the return of LoadFilters to its own return
OpenReturn ==
    /\ aborted = "no"
    /\ open_op.op = "loaded"
    /\ \E fbOK \in BOOLEAN :
         LET r == OpenFinish(open_op.load, fbOK)
         IN  /\ open_op' = [open_op EXCEPT !.op = "open", !.ret = r.ret,
                                           !.installed = r.installed,
                                           !.events = r.events]
             /\ list' = r.list
             /\ gl_gen' = r.gen
             /\ gl_read_fb' = 0
             /\ gl_draw_fb' = 0
    /\ UNCHANGED <<chain_op, draw_log, chain_ops, aborted, build, ring_vars,
                   call_vars, consumer_vars>>
    /\ UNCHANGED ctx_calls
    /\ UNCHANGED input_releases
    /\ UNCHANGED readpixels_size

\* The core closes the module after a successful Open
CloseCall ==
    /\ aborted = "no"
    /\ open_op.op = "open"
    /\ open_op.ret = "VLC_SUCCESS"
    /\ open_op' = [open_op EXCEPT !.op = "close", !.ret = "none",
                                  !.installed = FALSE,
                                  !.events = @ \o Close(list)]
    /\ list' = <<>>
    /\ UNCHANGED <<gl_gen, gl_read_fb, gl_draw_fb, chain_op, draw_log, chain_ops,
                   aborted, build, ring_vars, call_vars, consumer_vars>>
    /\ UNCHANGED ctx_calls
    /\ UNCHANGED input_releases
    /\ UNCHANGED readpixels_size

\* ---------------------------------------------------------- specifications

\* the chain API on its own: any sequence of Append and Draw calls
InitChain ==
    /\ ChainInit
    /\ RingInit
    /\ CallInit
    /\ ConsumerInit
    /\ aborted = "no"
    /\ build = "unknown"
    /\ open_op = NoOpenOp
    /\ ctx_calls = <<>>
    /\ input_releases = [f \in Frames |-> 0]
    /\ readpixels_size = NoDecl

NextChain == ChainAppend \/ ChainUpdatePicture \/ ChainDraw

SpecChain == InitChain /\ [][NextChain]_vars

\* the module from before Open to after Close
NextOpen == OpenCall \/ OpenLoadFilters \/ OpenReturn \/ CloseCall

SpecOpen == InitChain /\ [][NextOpen]_vars

\* the chain LoadFilters leaves when every append succeeds, one stage per
\* declared size of decls
RECURSIVE LoadedChain(_)
LoadedChain(decls) ==
    IF Len(decls) = 0
    THEN [list |-> <<>>, gen |-> 0, read_fb |-> 0, draw_fb |-> 0,
          ret |-> NULL, abort |-> "no"]
    ELSE LET before == LoadedChain(SubSeq(decls, 1, Len(decls) - 1))
         IN  vlc_gl_filters_Append(before.list, before.gen, before.read_fb,
                                   before.draw_fb, FALSE, "stageA", TRUE, TRUE,
                                   TRUE, decls[Len(decls)], TRUE)

PipelineConfigs ==
    UNION {[1 .. k -> SizeDecls] : k \in 1 .. MaxPipelineStages}

\* the pipeline after a successful Open
Init ==
    /\ \E decls \in PipelineConfigs :
         /\ list = LoadedChain(decls).list
         /\ gl_gen = LoadedChain(decls).gen + BUFFER_COUNT
    /\ gl_read_fb = 0
    /\ gl_draw_fb = 0
    /\ chain_op = NoChainOp
    /\ draw_log = <<>>
    /\ chain_ops = 0
    /\ RingInit
    /\ CallInit
    /\ ConsumerInit
    /\ aborted = "no"
    /\ build = "unknown"
    /\ open_op = NoOpenOp
    /\ ctx_calls = <<>>
    /\ input_releases = [f \in Frames |-> 0]
    /\ readpixels_size = NoDecl

Next ==
    \/ FilterCall
    \/ FilterLock
    \/ FilterScan
    \/ FilterWakeSignaled
    \/ FilterWakeSpurious
    \/ FilterMakeCurrent
    \/ FilterUpdatePicture
    \/ FilterBind
    \/ FilterDraw
    \/ FilterReadback
    \/ FilterEmit
    \/ FilterAllocFail
    \/ \E c \in Consumers, f \in Frames : ConsumerCopyLock(c, f)
    \/ \E c \in Consumers : ConsumerCopy(c)
    \/ \E c \in Consumers, f \in Frames : ConsumerDestroyLock(c, f)
    \/ \E c \in Consumers : ConsumerDestroy(c)

Spec == Init /\ [][Next]_vars

\* Fair scheduling: a woken Filter gets the lock again, a thread inside the
\* lock runs on to its unlock. A spurious wake-up is never owed.
SpecLive ==
    /\ Spec
    /\ SF_vars(FilterWakeSignaled)
    /\ WF_vars(FilterScan)
    /\ WF_vars(\E c \in Consumers : ConsumerCopy(c))
    /\ WF_vars(\E c \in Consumers : ConsumerDestroy(c))

\* ------------------------------------------------------------------ claims

\* the draw events of a draw pass, in the order the stages were invoked
DrawEvents(log) == SelectSeq(log, LAMBDA e : e.ev = "draw")

\* an append with every step succeeding is possible on the chain as it is
CanAppend ==
    \E name \in ModuleNames, decl \in SizeDecls, nd \in NdebugChoices :
        vlc_gl_filters_Append(list, gl_gen, gl_read_fb, gl_draw_fb, nd, name,
                              TRUE, TRUE, TRUE, decl, TRUE).ret # NULL

\* C7: on a chain of K >= 1 stages exactly the last stage has no owned render
\* target and every earlier stage has one, after any sequence of successful
\* or failed appends; a successful append gives the previously-last stage a
\* render target.
C7_OnlyLastLacksTarget ==
    /\ Len(list) >= 1 =>
         /\ ~list[Len(list)].has_framebuffer_out
         /\ \A k \in 1 .. Len(list) - 1 : list[k].has_framebuffer_out
    /\ (chain_op.op = "append" /\ chain_op.ret # NULL /\ Len(chain_op.before) >= 1) =>
         list[Len(chain_op.before)].has_framebuffer_out

\* C8: a failed append leaves the stage list and the render-target state of
\* every stage as they were before the call, and a later append on the same
\* chain can still succeed.
C8_FailedAppendLeavesChain ==
    (chain_op.op = "append" /\ chain_op.ret = NULL) =>
        /\ list = chain_op.before
        /\ (aborted = "no" /\ Len(list) < MaxStages) => CanAppend

\* C9: a draw pass invokes the draw operations in append order, each at most
\* once; when the draw operation of stage k fails no later stage is invoked
\* and the pass returns that stage's error code; the pass returns success
\* exactly when every stage was invoked and succeeded.
C9_DrawInOrderStopsAtFailure ==
    chain_op.op = "draw" =>
        LET d == DrawEvents(draw_log)
            res == chain_op.results
        IN  /\ \A j \in 1 .. Len(d) : d[j].stage = j
            /\ Len(d) <= Len(list)
            /\ \A k \in 1 .. Len(d) :
                 res[k] # "VLC_SUCCESS" => (Len(d) = k /\ chain_op.ret = res[k])
            /\ (chain_op.ret = "VLC_SUCCESS") <=>
                 (Len(d) = Len(list) /\ \A k \in 1 .. Len(list) : res[k] = "VLC_SUCCESS")

\* a pass over three stages whose second stage fails with VLC_ENOMEM
C9_Witness ==
    /\ chain_op.op = "draw"
    /\ Len(list) = 3
    /\ chain_op.results[1] = "VLC_SUCCESS"
    /\ chain_op.results[2] = "VLC_ENOMEM"
    /\ chain_op.ret = "VLC_ENOMEM"
    /\ Len(DrawEvents(draw_log)) = 2

\* Filter has selected a slot and has not returned yet
InFlight ==
    fpc \in {"make_current", "update", "bind", "draw", "readback", "new_picture"}

LiveFrames == {f \in Frames : IsLive(f)}

\* the slots some consumer holds a reference to
HeldSlots == {FrameSlot(f) : f \in LiveFrames}

RECURSIVE SumHolds(_)
SumHolds(S) ==
    IF S = {} THEN 0
    ELSE LET f == CHOOSE f \in S : TRUE IN fholds[f] + SumHolds(S \ {f})

\* the outstanding holds on slot i
HoldsOn(i) == SumHolds({f \in LiveFrames : FrameSlot(f) = i})

\* C1: from the moment the scan selects a slot until Filter returns, the
\* slot's reference count is 0 and no consumer holds a reference to it, and
\* the pixel buffer Filter has bound (unmaps, renders into, reads back into)
\* is the buffer of that slot.
C1_SelectedSlotUnreferenced ==
    /\ InFlight =>
         /\ index \in Slots
         /\ rc[index] = 0
         /\ index \notin HeldSlots
    /\ fpc \in {"draw", "readback"} => gl_pack = index
    /\ gl_pack # NoBuffer =>
         /\ rc[gl_pack] = 0
         /\ gl_pack \notin HeldSlots

\* Filter reads back into slot 1 while a consumer is releasing the frame on
\* slot 0
C1_Witness ==
    /\ fpc = "readback"
    /\ index = 1
    /\ gl_pack = 1
    /\ \E c \in Consumers : cpc[c] = "destroy" /\ FrameSlot(cframe[c]) = 0

AllBusy == \A i \in Slots : rc[i] > 0

\* C2: at most BUFFER_COUNT emitted frames are outstanding, each on its own
\* slot with a positive count; while all three counts are above 0 a running
\* Filter call is inside the acquisition loop, with the context not current
\* and no slot bound; a wake-up, whatever caused it, leads to a rescan, and
\* the loop is left only with a slot whose count is 0.
C2_AtMostThreeOutstanding ==
    /\ [](/\ Cardinality(LiveFrames) <= BUFFER_COUNT
          /\ \A f, g \in LiveFrames : f # g => FrameSlot(f) # FrameSlot(g)
          /\ \A f \in LiveFrames : rc[FrameSlot(f)] > 0
          /\ AllBusy => (/\ fpc \in {"idle", "lock", "scan", "waiting"}
                         /\ ~gl_current
                         /\ gl_pack = NoBuffer))
    /\ [][/\ fpc = "waiting" => fpc' \in {"waiting", "scan"}
          /\ (fpc \in {"lock", "scan", "waiting"} /\ fpc' \notin {"lock", "scan", "waiting"})
               => (fpc' = "make_current" /\ rc'[index'] = 0)]_vars

\* a rescan after a wake-up that finds all three slots still busy
C2_Witness ==
    /\ fpc = "scan"
    /\ waited
    /\ AllBusy
    /\ Cardinality(LiveFrames) = BUFFER_COUNT
    /\ \E f \in LiveFrames : fholds[f] = 1

\* C3: once a release has brought some count to 0 while Filter waits, Filter
\* wakes up, rescans and goes on with a slot whose count is 0; a call that
\* had to wait goes on with a slot that no consumer holds any more.
C3_WakeAfterRelease ==
    /\ (fpc = "waiting" /\ \E i \in Slots : rc[i] = 0)
          ~> (fpc = "make_current" /\ rc[index] = 0)
    /\ []((waited /\ InFlight) => (rc[index] = 0 /\ index \notin HeldSlots))

\* the fourth of four frames waited, then took slot 0 after frame 1 was
\* released
C3_Witness ==
    /\ input = 4
    /\ waited
    /\ fpc = "make_current"
    /\ emitted = <<1, 2, 3>>
    /\ LiveFrames = {2, 3}
    /\ index = 0

\* C4: the count of a slot is the number of outstanding holds on it and is
\* never negative (for every slot whose context Filter has not handed to
\* free()); emitting a frame leaves the slot's count at exactly 1, a copy adds
\* 1 and a release subtracts 1, and none of them changes another slot's count.
C4_CountEqualsHolds ==
    /\ [](\A i \in Slots \ ctx_freed : rc[i] = HoldsOn(i) /\ rc[i] >= 0)
    /\ [][/\ Len(emitted') = Len(emitted) + 1 =>
               rc' = [rc EXCEPT ![index] = 1]
          /\ \A c \in Consumers :
               /\ (cpc[c] = "copy" /\ cpc'[c] = "idle") =>
                    rc' = [rc EXCEPT ![FrameSlot(cframe[c])] = @ + 1]
               /\ (cpc[c] = "destroy" /\ cpc'[c] = "idle") =>
                    rc' = [rc EXCEPT ![FrameSlot(cframe[c])] = @ - 1]]_vars

\* frame 1 copied once, frame 2 emitted on slot 1 and released
C4_Witness ==
    /\ emitted = <<1, 2>>
    /\ fholds[1] = 2
    /\ rc[0] = 2
    /\ ~IsLive(2)
    /\ rc[1] = 0

\* C5: the slot Filter goes on with is the lowest index whose count is 0 in
\* the scan under the lock, wherever the current_flip cursor pointed.
C5_LowestFreeIndex ==
    [][(fpc = "scan" /\ fpc' = "make_current") =>
          /\ rc[index'] = 0
          /\ \A j \in 0 .. index' - 1 : rc[j] # 0
          /\ rc' = rc]_vars

\* the third frame takes slot 0, released by frame 1, although the second
\* frame left the cursor on slot 2
C5_Witness ==
    /\ fpc = "make_current"
    /\ input = 3
    /\ emitted = <<1, 2>>
    /\ LiveFrames = {2}
    /\ FrameSlot(2) = 1
    /\ index = 0

\* the input frames whose Filter call has returned
Completed == 1 .. (IF input = 0 THEN frames_in ELSE frames_in - 1)

\* C6: the emitted frames are the submitted frames, in submission order, with
\* the dropped ones removed.
C6_EmittedInOrder ==
    /\ emitted = SelectSeq([k \in Completed |-> k], LAMBDA f : f \notin dropped)
    /\ dropped \subseteq Completed

\* frame 2 dropped, frame 3 released before frame 1, frame 4 on frame 3's slot
C6_Witness ==
    /\ emitted = <<1, 3, 4>>
    /\ dropped = {2}
    /\ LiveFrames = {1, 4}
    /\ FrameSlot(1) = 0
    /\ FrameSlot(4) = 1

\* C10: after a successful draw pass the framebuffer ReadPixels reads from is
\* the framebuffer the terminal stage drew into in that call.
C10_ReadbackOfTerminalStage ==
    fpc = "new_picture" =>
        LET d == DrawEvents(draw_log)
        IN  /\ Len(d) = Len(list)
            /\ readpixels_fb = d[Len(d)].draw_fb

\* C11 as stated: an update on a chain with zero stages returns an error
\* result to the caller and reaches no sampler; on a chain with stages the
\* picture reaches the sampler of the first stage only.
C11_EmptyChainReturnsError ==
    chain_op.op = "update" =>
        IF Len(chain_op.before) = 0
        THEN /\ aborted = "no"
             /\ chain_op.ret \in TexCodes \ {"VLC_SUCCESS"}
             /\ chain_op.results = <<>>
        ELSE chain_op.results = <<1>>

\* C11 amended: an update on a chain with zero stages reaches no sampler
\* and, with assertions active, aborts on the non-empty-chain assertion
\* instead of returning a result; on a chain with stages the picture reaches
\* the sampler of the first stage only and the sampler's result is returned.
C11_EmptyChainAsserts ==
    chain_op.op = "update" =>
        IF Len(chain_op.before) = 0
        THEN /\ chain_op.results = <<>>
             /\ build # "unknown"
             /\ build = "debug" =>
                  (aborted = "assert_update" /\ chain_op.ret = "none")
        ELSE /\ chain_op.results = <<1>>
             /\ chain_op.ret \in TexCodes
             /\ aborted = "no"

\* an update on a chain of two stages
C11_Witness ==
    /\ chain_op.op = "update"
    /\ Len(chain_op.before) = 2
    /\ chain_op.results = <<1>>
    /\ chain_op.ret = "VLC_EGENERIC"

\* the filters of a configuration string, in the order of the string, each
\* with its inline parameters
RECURSIVE ParsedFilters(_)
ParsedFilters(string) ==
    LET p == config_ChainCreate(string)
    IN  (IF p.name # NULL THEN <<[name |-> p.name, config |-> p.config]>> ELSE <<>>)
        \o (IF p.leftover.null THEN <<>> ELSE ParsedFilters(p.leftover.s))

\* C12: LoadFilters calls vlc_gl_filters_Append for the names of the
\* configuration string in the order of the string, each with its own
\* parameters; it stops at the first call that fails and returns an error,
\* appending none of the later names; it returns success exactly when every
\* name was appended; the chain holds the appended names in that order.
C12_LoadFiltersAppendsInOrder ==
    open_op.op = "loaded" =>
        LET lf == open_op.load
            parsed == ParsedFilters(open_op.config.s)
            calls == lf.appends
            k == Len(calls)
        IN  /\ k <= Len(parsed)
            /\ \A j \in 1 .. k : /\ calls[j].name = parsed[j].name
                                 /\ calls[j].config = parsed[j].config
            /\ \A j \in 1 .. k - 1 : calls[j].ret # NULL
            /\ lf.ret \in {"VLC_SUCCESS", "VLC_EGENERIC"}
            /\ (lf.ret = "VLC_SUCCESS") <=>
                 (k = Len(parsed) /\ \A j \in 1 .. k : calls[j].ret # NULL)
            /\ lf.ret # "VLC_SUCCESS" => (k >= 1 /\ calls[k].ret = NULL)
            /\ Len(list) = (IF lf.ret = "VLC_SUCCESS" THEN k ELSE k - 1)
            /\ \A j \in 1 .. Len(list) : list[j].name = parsed[j].name

\* the configuration "stageA:param=1,stageB" gives two stages in that order,
\* stageA with param=1
C12_Witness ==
    /\ open_op.op = "loaded"
    /\ open_op.config = StringOf(<<"stageA", ":param=1", Separator, "stageB">>)
    /\ open_op.load.ret = "VLC_SUCCESS"
    /\ Len(list) = 2
    /\ list[1].name = "stageA"
    /\ list[2].name = "stageB"
    /\ open_op.load.appends[1].config = <<":param=1">>
    /\ open_op.load.appends[2].config = <<>>

\* the resources whose release order Open's error labels fix
UnwindRank(kind) ==
    CASE kind \in {"stage", "target"} -> 1
      [] kind = "interop" -> 2
      [] kind = "current" -> 3
      [] kind = "gl" -> 4
      [] kind = "sys" -> 5
      [] OTHER -> 0

\* every resource of the events is created once and destroyed once, later
Balanced(events) ==
    \A i \in DOMAIN events :
        LET same == {j \in DOMAIN events : /\ events[j].kind = events[i].kind
                                           /\ events[j].id = events[i].id}
        IN  /\ Cardinality({j \in same : events[j].ev = "create"}) = 1
            /\ Cardinality({j \in same : events[j].ev = "destroy"}) = 1
            /\ \A j \in same : events[j].ev = "destroy" =>
                 \E c \in same : c < j /\ events[c].ev = "create"

\* C13: an Open that fails after it created resources returns an error, does
\* not install the Filter callback and has released every resource it created
\* exactly once, the stages (with their render targets) before the interop,
\* the interop before the current context, that before the GL object, that
\* before the pipeline state.
C13_FailedOpenReleasesAll ==
    (open_op.op = "open" /\ open_op.ret # "VLC_SUCCESS") =>
        /\ open_op.ret \in {"VLC_EGENERIC", "VLC_ENOMEM"}
        /\ ~open_op.installed
        /\ Balanced(open_op.events)
        /\ \A i, j \in DOMAIN open_op.events :
             (/\ i < j
              /\ open_op.events[i].ev = "destroy"
              /\ open_op.events[j].ev = "destroy"
              /\ UnwindRank(open_op.events[i].kind) > 0
              /\ UnwindRank(open_op.events[j].kind) > 0)
             => UnwindRank(open_op.events[i].kind) <= UnwindRank(open_op.events[j].kind)

\* C14: a Filter call that fails at the context activation, at the picture
\* update or at the draw pass returns no frame, changes no count, leaves the
\* selected slot at count 0, with the context released and the lock free; a
\* later call whose steps all succeed emits a frame on a freshly mapped
\* buffer with count 1.
C14_FrameErrorKeepsPipelineUsable ==
    [][/\ (fpc \in {"make_current", "update", "draw"} /\ fpc' = "idle") =>
            /\ emitted' = emitted
            /\ input \in dropped'
            /\ rc' = rc
            /\ rc[index] = 0
            /\ aborted' = "no"
            /\ ~gl_current'
            /\ mutex' # "filter"
       /\ (Len(emitted') = Len(emitted) + 1 /\ ctx_freed = {}) =>
            /\ pictures'[input] = OutputFrame(index, MapPointer(index))
            /\ rc'[index] = 1
            /\ ~gl_current']_vars

\* frame 2 failed after slot 1 was selected for it; frame 3 is emitted on
\* slot 1
C14_Witness ==
    /\ emitted = <<1, 3>>
    /\ dropped = {2}
    /\ ctx_freed = {}
    /\ IsLive(1)
    /\ pictures[3] = OutputFrame(1, MapPointer(1))
    /\ rc[1] = 1

\* C15: Filter has released an input frame exactly once when it returned an
\* output frame for it, and not at all otherwise.
C15_InputReleasedOnlyOnEmit ==
    \A f \in Frames :
        input_releases[f] = (IF \E k \in DOMAIN emitted : emitted[k] = f
                             THEN 1 ELSE 0)

\* frame 1 emitted and released once, frame 2 dropped by the failed
\* allocation of its output frame and not released
C15_Witness ==
    /\ emitted = <<1>>
    /\ dropped = {2}
    /\ ctx_freed # {}
    /\ input_releases[1] = 1
    /\ input_releases[2] = 0

\* C16: while all three counts stay above 0 a Filter call stays in the
\* acquisition loop and no frame is emitted or dropped; blocked in the wait
\* it holds neither the lock nor the rendering context.
C16_BlockedWhileAllBusy ==
    /\ [](fpc = "waiting" => (mutex # "filter" /\ ~gl_current))
    /\ [][(AllBusy /\ AllBusy' /\ fpc \in {"lock", "scan", "waiting"}) =>
            /\ fpc' \in {"lock", "scan", "waiting"}
            /\ emitted' = emitted
            /\ dropped' = dropped]_vars

\* the fourth call blocked in the wait with three frames outstanding
C16_Witness ==
    /\ fpc = "waiting"
    /\ input = 4
    /\ AllBusy
    /\ Cardinality(LiveFrames) = BUFFER_COUNT
    /\ mutex = "free"
    /\ ~cond_signaled

\* C17: between Filter calls the recorded mapping of a slot is non-null
\* exactly when its pixel buffer is mapped; Filter unmaps the selected slot
\* exactly when it is mapped, and the bound buffer is unmapped during the
\* draw pass and the readback.
C17_MappingMatchesBuffer ==
    /\ fpc = "idle" =>
         \A i \in Slots : (buffer_mapping[i] # 0) <=> pbo_mapped[i]
    /\ fpc = "bind" => ((buffer_mapping[index] # 0) <=> pbo_mapped[index])
    /\ fpc \in {"draw", "readback"} => ~pbo_mapped[gl_pack]

\* C18: whenever a thread is about to read or write a slot's count or
\* mapping pointer (Filter's scan, unmap test and emission, a consumer's copy
\* or release) it holds the lock.
C18_SlotStateUnderLock ==
    /\ fpc \in {"scan", "bind", "new_picture"} => mutex = "filter"
    /\ \A c \in Consumers : cpc[c] \in {"copy", "destroy"} => mutex = "consumer"

\* C19: a Filter call activates the context at most once and releases it
\* exactly once after a successful activation, never after a failed one; the
\* context is current exactly between the two, and never after Filter
\* returned.
C19_ContextReleasedOnce ==
    /\ ctx_calls \in {<<>>, <<"make_fail">>, <<"make_ok">>, <<"make_ok", "release">>}
    /\ gl_current <=> ctx_calls = <<"make_ok">>
    /\ fpc \in {"update", "bind", "draw", "readback"} => gl_current
    /\ fpc \in {"idle", "new_picture"} => ~gl_current
    /\ (fpc = "idle" /\ frames_in > 0) =>
         ctx_calls \in {<<"make_fail">>, <<"make_ok", "release">>}

\* the first call returned from a failed draw pass (its pixel buffer is
\* still bound) with the context released
C19_Witness ==
    /\ fpc = "idle"
    /\ dropped = {1}
    /\ gl_pack = 0
    /\ ctx_calls = <<"make_ok", "release">>
    /\ ~gl_current

\* C20: in a draw pass the sampler of every stage i > 1 is refreshed with the
\* output texture and declared size of stage i-1 right before stage i is
\* drawn; stage i is drawn with the render target of stage i-1 as read
\* framebuffer (0 for the first stage) and its own render target as draw
\* framebuffer, 0 for the last stage; a failed refresh ends the pass before
\* the draw of stage i.
C20_DrawBindsStageTargets ==
    chain_op.op = "draw" =>
        \A p \in DOMAIN draw_log :
            LET e == draw_log[p]
                i == e.stage
            IN  IF e.ev = "draw"
                THEN /\ e.read_fb = (IF i = 1 THEN 0 ELSE list[i - 1].framebuffer_out)
                     /\ e.draw_fb = (IF i = Len(list) THEN 0
                                     ELSE list[i].framebuffer_out)
                     /\ i > 1 => (/\ p > 1
                                  /\ draw_log[p - 1].ev = "UpdateTexture"
                                  /\ draw_log[p - 1].stage = i)
                     /\ i < Len(list) => list[i].has_framebuffer_out
                ELSE /\ i > 1
                     /\ p > 1
                     /\ draw_log[p - 1].ev = "draw"
                     /\ draw_log[p - 1].stage = i - 1
                     /\ e.texture = list[i - 1].texture_out
                     /\ e.size = list[i - 1].size_out
                     /\ IF p = Len(draw_log)
                        THEN chain_op.ret # "VLC_SUCCESS"
                        ELSE draw_log[p + 1].ev = "draw" /\ draw_log[p + 1].stage = i

\* C21: the sampler of the first stage has the interop's visible size, the
\* sampler of every later stage has the output size its predecessor
\* declared, and a stage whose module declares nothing has its input size as
\* output size.
C21_SizesChainThrough ==
    /\ \A k \in 1 .. Len(list) :
         /\ list[k].sampler.size = (IF k = 1 THEN InteropSize
                                    ELSE list[k - 1].size_out)
         /\ list[k].size_out \in {list[k].sampler.size, WideSize}
    /\ (chain_op.op = "append" /\ chain_op.ret # NULL) =>
         /\ Len(list) = Len(chain_op.before) + 1
         /\ list[Len(list)].size_out =
              (IF chain_op.results[1] = NoDecl THEN list[Len(list)].sampler.size
               ELSE chain_op.results[1])

\* three stages: the second declares the wide size, the third declares
\* nothing and passes the wide size on
C21_Witness ==
    /\ chain_op.op = "append"
    /\ chain_op.ret # NULL
    /\ chain_op.results = <<NoDecl>>
    /\ Len(list) = 3
    /\ list[1].size_out = InteropSize
    /\ list[2].size_out = WideSize
    /\ list[3].sampler.size = WideSize
    /\ list[3].size_out = WideSize

\* what a teardown does to the stages and their render targets
IsTeardownEvent(e) == e.kind \in {"stage", "target"} /\ e.ev # "create"
TeardownLog == SelectSeq(open_op.events, IsTeardownEvent)
CreatedIds(kind) ==
    {open_op.events[i].id :
        i \in {j \in DOMAIN open_op.events : /\ open_op.events[j].ev = "create"
                                             /\ open_op.events[j].kind = kind}}

\* C22: after Close every stage of the chain has been deleted exactly once,
\* in chain order, each render target exactly once and directly before the
\* stage that owns it, and no stage is read or deleted again after its
\* deletion.
C22_DestroyDeletesEachStageOnce ==
    open_op.op = "close" =>
        LET log == TeardownLog
            At(e) == {i \in DOMAIN log : log[i] = e}
        IN  /\ \A k \in CreatedIds("stage") :
                 Cardinality(At(Destroyed("stage", k))) = 1
            /\ \A k \in CreatedIds("target") :
                 /\ Cardinality(At(Destroyed("target", k))) = 1
                 /\ \A i \in At(Destroyed("target", k)) :
                      i < Len(log) /\ log[i + 1] = Destroyed("stage", k)
            /\ \A i \in DOMAIN log :
                 log[i].ev = "destroy" => log[i].id \in CreatedIds(log[i].kind)
            /\ \A i, j \in DOMAIN log :
                 (i < j /\ log[i].ev = "destroy" /\ log[j].ev = "destroy")
                     => log[i].id <= log[j].id
            /\ \A i, j \in DOMAIN log :
                 (i < j /\ log[i].ev = "destroy" /\ log[i].kind = "stage")
                     => log[j].id # log[i].id

\* Close of a chain of two stages, the first with a render target
C22_Witness ==
    /\ open_op.op = "close"
    /\ CreatedIds("stage") = {1, 2}
    /\ CreatedIds("target") = {1}
    /\ Len(TeardownLog) = 5

\* a slot with a negative count that the scan visits: no slot before it has
\* count 0
NegativeVisited(r) ==
    \E i \in Slots : r[i] < 0 /\ \A j \in 0 .. i - 1 : r[j] # 0

C24_EmittedFrameUsesSelectedSlot ==
    [][(fpc = "new_picture" /\ emitted' # emitted) =>
         /\ current_flip = AdvanceFlip(index)
         /\ current_flip # index
         /\ emitted' = Append(emitted, input)
         /\ pictures'[input].context = index
         /\ pictures'[input].p_pixels = pixels
         /\ buffer_mapping'[index] = pictures'[input].p_pixels
         /\ rc' = [rc EXCEPT ![index] = @ + 1]
         /\ \A i \in Slots \ {index} : buffer_mapping'[i] = buffer_mapping[i]]_vars

\* a frame emitted on slot 1 while the cursor stands on slot 2
C24_Witness ==
    /\ fpc = "idle"
    /\ aborted = "no"
    /\ current_flip = 2
    /\ Len(emitted) > 0
    /\ pictures[emitted[Len(emitted)]] # NoPicture
    /\ pictures[emitted[Len(emitted)]].context = 1
    /\ pictures[emitted[Len(emitted)]].p_pixels = buffer_mapping[1]
    /\ rc[1] = 1

\* C25: the Filter thread holds the lock only while it scans, never while
\* it waits or does its GPU work; every lock holder gives the lock up, and
\* every picture_context_copy or picture_context_destroy that has taken the
\* lock runs to its end, whatever the Filter thread is doing.
C25_NoDeadlock ==
    /\ [](mutex = "filter" <=> fpc = "scan")
    /\ [](mutex = "consumer" <=> \E c \in Consumers : cpc[c] # "idle")
    /\ (mutex # "free") ~> (mutex = "free" \/ aborted # "no")
    /\ \A c \in Consumers :
         (cpc[c] # "idle") ~> (cpc[c] = "idle" \/ aborted # "no")

\* a consumer releases a frame inside the lock while the Filter call is
\* blocked in its wait
C25_Witness ==
    /\ fpc = "waiting"
    /\ mutex = "consumer"
    /\ \E c \in Consumers : cpc[c] = "destroy"
    /\ AllBusy

\* C26: from Open to Close the contexts of the three slots stay valid and
\* owned by the ring: no step of Filter hands a slot context to free() or
\* ends the process on it.
C26_SlotContextsStayOwned ==
    /\ ctx_freed = {}
    /\ aborted # "free"
    /\ \A i \in Slots : rc[i] >= 0

\* C27: whenever Open has succeeded the chain holds at least one stage, and
\* a configuration string from which no filter name is parsed makes Open
\* fail.
C27_OpenedChainHasAStage ==
    /\ (open_op.op = "open" /\ open_op.ret = "VLC_SUCCESS") => Len(list) >= 1
    /\ (open_op.op = "open" /\ ~open_op.config.null
            /\ ParsedFilters(open_op.config.s) = <<>>)
         => open_op.ret # "VLC_SUCCESS"

\* C28: the region Filter has read back and mapped has the width and height
\* the terminal stage of the chain declared as its output size, and its
\* width x height x 4 bytes fit the capacity of the slot's pixel buffer.
C28_ReadbackRegionIsTerminalSize ==
    (fpc = "new_picture" /\ Len(list) > 0) =>
        /\ readpixels_size = list[Len(list)].size_out
        /\ MapLength(readpixels_size) <= BufferSize

====
